---- MODULE Spec2Model ----
(***************************************************************************)
(* Write-back batching engine of the Google Sheet batch assistant server:  *)
(* the update queue and its batch timer (server.ts), the read throttle,    *)
(* the retry wrapper and the batch apply (google-sheets-client.ts), and    *)
(* the shutdown handler.  Node runs the handlers on one thread, so every   *)
(* action below is the code that runs between two awaits.                   *)
(*                                                                         *)
(* Time is counted in ticks of 1000 ms.  Timers are count-downs: a timer   *)
(* fires when its count-down is 0, before the next tick, while a remote    *)
(* call, with the back-off of retryOperation that precedes it, takes any   *)
(* number of ticks.  Strings are sequences of one-character strings.       *)
(***************************************************************************)
EXTENDS Integers, Sequences, FiniteSets, TLC

\* ---------------------------------------------------------------- bounds
\* pool of concurrently running tool calls / timer callbacks
MaxTasks == 2
\* tool calls (update, flush, query) made over a run
MaxCalls == 2
\* config.readInterval, in ticks
ReadInterval == 1
\* config.batchInterval, in ticks
BatchInterval == 1
\* how far other editors move the number of rows of the sheet up or down
MaxEdits == 1
\* Largest limit argument of the query calls.
MaxLimit == 3
\* Largest header row number of the configure calls.
MaxHeaderRow == 2

\* ------------------------------------------------------ program constants
maxRetries == 3

\* ---------------------------------------------------------------- strings
Digits == <<"0", "1", "2", "3", "4", "5", "6", "7", "8", "9">>

Min(a, b) == IF a < b THEN a ELSE b

Max(a, b) == IF a > b THEN a ELSE b

IsSpace(c) == c = " "

RECURSIVE TrimLeft(_)
TrimLeft(s) == IF s # <<>> /\ IsSpace(Head(s)) THEN TrimLeft(Tail(s)) ELSE s

RECURSIVE TrimRight(_)
TrimRight(s) ==
  IF s # <<>> /\ IsSpace(s[Len(s)]) THEN TrimRight(SubSeq(s, 1, Len(s) - 1)) ELSE s

\* String.prototype.trim
Trim(s) == TrimRight(TrimLeft(s))

DigitValue(c) == CHOOSE d \in 0..9 : Digits[d + 1] = c

IsDigit(c) == \E d \in 0..9 : Digits[d + 1] = c

\* !isNaN(Number(s)) for a trimmed, non-empty s over the alphabet of the
\* model (decimal digits, letters other than e and x, spaces): s is a run
\* of digits.  A string with an inner space or a letter gives NaN.
IsNumeric(s) == s # <<>> /\ \A i \in 1..Len(s) : IsDigit(s[i])

RECURSIVE ToNumber(_)
ToNumber(s) ==
  IF s = <<>> THEN 0 ELSE 10 * ToNumber(SubSeq(s, 1, Len(s) - 1)) + DigitValue(s[Len(s)])

RECURSIVE NumberToString(_)
NumberToString(n) ==
  IF n < 10 THEN <<Digits[n + 1]>> ELSE NumberToString(n \div 10) \o <<Digits[(n % 10) + 1]>>

UpperChar(c) ==
  CASE c = "t" -> "T" [] c = "r" -> "R" [] c = "u" -> "U" [] c = "e" -> "E"
    [] c = "f" -> "F" [] c = "a" -> "A" [] c = "l" -> "L" [] c = "s" -> "S"
    [] c = "k" -> "K" [] c = "x" -> "X" [] c = "b" -> "B" [] c = "i" -> "I"
    [] c = "d" -> "D" [] c = "n" -> "N" [] c = "o" -> "O"
    [] OTHER -> c

\* String.prototype.toUpperCase
ToUpper(s) == [i \in 1..Len(s) |-> UpperChar(s[i])]

\* ------------------------------------------------------------ cell values
\* A cell of the remote sheet holds a string, a number or a boolean.
StrCell(s) == [t |-> "str", s |-> s, n |-> 0, b |-> FALSE]

NumCell(n) == [t |-> "num", s |-> <<>>, n |-> n, b |-> FALSE]

BoolCell(b) == [t |-> "bool", s |-> <<>>, n |-> 0, b |-> b]

\* A conversion without the test for the empty string: Number('') is 0.
CoerceEmptyToZero(value) ==
  LET trimmedValue == Trim(value) IN
  IF trimmedValue = <<>> \/ IsNumeric(trimmedValue) THEN NumCell(ToNumber(trimmedValue))
  ELSE IF ToUpper(trimmedValue) = <<"T", "R", "U", "E">> THEN BoolCell(TRUE)
  ELSE IF ToUpper(trimmedValue) = <<"F", "A", "L", "S", "E">> THEN BoolCell(FALSE)
  ELSE StrCell(value)

\* The value batchUpdate assigns to cell.value for a transaction value.
CoerceValue(value) ==
  LET trimmedValue == Trim(value) IN
  IF trimmedValue # <<>> /\ IsNumeric(trimmedValue) THEN NumCell(ToNumber(trimmedValue))
  ELSE IF ToUpper(trimmedValue) = <<"T", "R", "U", "E">> THEN BoolCell(TRUE)
  ELSE IF ToUpper(trimmedValue) = <<"F", "A", "L", "S", "E">> THEN BoolCell(FALSE)
  ELSE StrCell(value)

\* The string a read returns for a cell (row.get(header) || '').
CellText(cell) ==
  CASE cell.t = "str" -> cell.s
    [] cell.t = "num" -> NumberToString(cell.n)
    [] cell.t = "bool" -> IF cell.b THEN <<"T", "R", "U", "E">> ELSE <<"F", "A", "L", "S", "E">>

\* ------------------------------------------------------------ remote sheet
\* Header row of the sheet (headerRow = 1): sheet.headerValues.
SheetHeaders == <<"id", "status">>

HeaderSet == {SheetHeaders[i] : i \in 1..Len(SheetHeaders)}

K1 == <<"k", "1">>

K2 == <<"k", "2">>

KX == <<"k", "x">>

K3 == <<"k", "3">>

\* The data rows of the sheet when the server starts; row i of the sequence
\* is sheet row i + 1.
InitialSheet ==
  << [id |-> StrCell(K1), status |-> StrCell(<<>>)],
     [id |-> StrCell(K2), status |-> StrCell(<<>>)] >>

\* A row of the grid below the data: no cell has a value.
EmptyRow == [id |-> StrCell(<<>>), status |-> StrCell(<<>>)]

\* The row another editor of the spreadsheet inserts.
InsertedRow == [id |-> StrCell(K3), status |-> StrCell(<<>>)]

\* The tool-call arguments (key, column, value) the model draws from: an
\* existing key with a plain and with a numeric value, a key that is in no
\* row and a column that is in no header.
WriteInputs ==
  { <<K1, "status", <<"a">>>>, <<K1, "status", <<"7">>>>, <<KX, "status", <<"a">>>> }

\* The arguments of the flush calls: an existing key with a plain and with
\* a numeric value, and a column that is in no header.
FlushInputs ==
  { <<K1, "status", <<"a">>>>, <<K1, "status", <<"7">>>>, <<K1, "note", <<"a">>>> }

\* The SheetData that the operation inside loadData builds from the sheet.
LoadRows(sh) ==
  LET headers == SheetHeaders
      rowData == [i \in 1..Len(sh) |-> [h \in HeaderSet |-> CellText(sh[i][h])]]
      keyColumn == headers[1]
      keyValues == {rowData[i][keyColumn] : i \in 1..Len(sh)} \ {<<>>}
      LastRow(k) == CHOOSE i \in 1..Len(sh) :
                      /\ rowData[i][keyColumn] = k
                      /\ \A j \in 1..Len(sh) : rowData[j][keyColumn] = k => j <= i
  IN [headers |-> headers,
      rows |-> rowData,
      keyToRowIndex |-> [k \in keyValues |-> LastRow(k) + 1],
      columnToIndex |-> [h \in HeaderSet |->
                           (CHOOSE i \in 1..Len(headers) : headers[i] = h) - 1]]

\* rowIndex !== undefined && colIndex !== undefined
Resolves(data, tx) ==
  /\ tx.key \in DOMAIN data.keyToRowIndex
  /\ tx.column \in DOMAIN data.columnToIndex

\* A write to the grid row rowIndex instead of rowIndex - 1: the row below
\* the one that holds the key.
SetCellBelow(sh, data, tx) ==
  LET r == data.keyToRowIndex[tx.key]
      h == SheetHeaders[data.columnToIndex[tx.column] + 1]
      grid == [i \in 1..Max(r, Len(sh)) |-> IF i <= Len(sh) THEN sh[i] ELSE EmptyRow]
  IN [grid EXCEPT ![r] = [@ EXCEPT ![h] = CoerceValue(tx.value)]]

\* cell.value = ... on sheet.getCell(rowIndex - 1, colIndex): grid row
\* rowIndex - 1 (0-based) is data row rowIndex - 1 of the sequence.
SetCell(sh, data, tx) ==
  LET r == data.keyToRowIndex[tx.key] - 1
      h == SheetHeaders[data.columnToIndex[tx.column] + 1]
      grid == [i \in 1..Max(r, Len(sh)) |-> IF i <= Len(sh) THEN sh[i] ELSE EmptyRow]
  IN [grid EXCEPT ![r] = [@ EXCEPT ![h] = CoerceValue(tx.value)]]

\* A loop that stops at the first transaction it cannot resolve.
RECURSIVE ApplyUntilUnresolved(_, _, _)
ApplyUntilUnresolved(sh, data, txs) ==
  IF txs = <<>> \/ ~Resolves(data, Head(txs)) THEN sh
  ELSE ApplyUntilUnresolved(SetCell(sh, data, Head(txs)), data, Tail(txs))

\* The `for (const transaction of transactions)` loop of batchUpdate: a
\* transaction whose key or column the loaded data lacks is skipped.
RECURSIVE ApplyInOrder(_, _, _)
ApplyInOrder(sh, data, txs) ==
  IF txs = <<>> THEN sh
  ELSE ApplyInOrder(IF Resolves(data, Head(txs)) THEN SetCell(sh, data, Head(txs)) ELSE sh,
                    data, Tail(txs))

\* The loop run over the transactions back to front: the first write to a
\* cell would win.
ApplyWritesBackwards(sh, data, txs) ==
  ApplyInOrder(sh, data, [i \in 1..Len(txs) |-> txs[Len(txs) + 1 - i]])

\* The `for (const transaction of transactions)` loop of batchUpdate followed
\* by saveUpdatedCells: the sheet after one successful attempt.
ApplyWrites(sh, data, txs) == ApplyInOrder(sh, data, txs)

\* -------------------------------------------------------------- key column
Letters ==
  << "A", "B", "C", "D", "E", "F", "G", "H", "I", "J", "K", "L", "M",
     "N", "O", "P", "Q", "R", "S", "T", "U", "V", "W", "X", "Y", "Z" >>

\* The characters of the header names and key specifications of the model.
Chars(str) ==
  CASE str = "A" -> <<"A">>
    [] str = "B" -> <<"B">>
    [] str = "id" -> <<"i", "d">>
    [] str = "status" -> <<"s", "t", "a", "t", "u", "s">>
    [] str = "C" -> <<"C">>
    [] str = "Z" -> <<"Z">>
    [] str = "b" -> <<"b">>
    [] str = "AA" -> <<"A", "A">>
    [] str = "AB" -> <<"A", "B">>
    [] str = "k1" -> <<"k", "1">>
    [] str = "note" -> <<"n", "o", "t", "e">>

\* ------------------------------------------------------ custom header row
\* A cell without a value.
Blank == StrCell(<<>>)

\* `if (cell.value)`: null, '', 0 and false are falsy.
Truthy(cell) ==
  CASE cell.t = "str" -> cell.s # <<>>
    [] cell.t = "num" -> cell.n # 0
    [] cell.t = "bool" -> cell.b

\* String(cell.value) of a truthy value.
ValueString(cell) ==
  CASE cell.t = "str" -> cell.s
    [] cell.t = "num" -> NumberToString(cell.n)
    [] cell.t = "bool" -> <<"t", "r", "u", "e">>

\* `cell.value ? String(cell.value) : ''`
CellString(cell) == IF Truthy(cell) THEN ValueString(cell) ELSE <<>>

\* The names a header cell of the model can hold, and the name for the
\* characters of a header cell.
HeaderNames == {"id", "status", "note", "k1"}

HeaderName(cs) == CHOOSE name \in HeaderNames : Chars(name) = cs

\* The number of leading TRUE elements of flags: the turns a loop makes
\* before its break.
LeadingCount(flags) ==
  IF \A i \in 1..Len(flags) : flags[i] THEN Len(flags)
  ELSE (CHOOSE i \in 1..Len(flags) : ~flags[i] /\ \A j \in 1..(i - 1) : flags[j]) - 1

\* The SheetData that the operation inside loadData builds when headerRow is
\* not 1, from the cells of the grid (grid[r][c] is sheet row r, column c):
\* the header loop stops at the first falsy cell of row headerRow, the row
\* loop at the first row below it without a truthy cell in a header column.
LoadDataByCells(grid, headerRow) ==
  LET n == LeadingCount([c \in 1..Len(grid[headerRow]) |-> Truthy(grid[headerRow][c])])
      headers == [c \in 1..n |-> HeaderName(ValueString(grid[headerRow][c]))]
      names == {headers[c] : c \in 1..n}
      LastColumn(name) == CHOOSE c \in 1..n : headers[c] = name /\ \A d \in 1..n : headers[d] = name => d <= c
      below == [i \in 1..(Len(grid) - headerRow) |-> grid[headerRow + i]]
      HasData(cells) == \E c \in 1..n : Truthy(cells[c])
      m == LeadingCount([i \in 1..Len(below) |-> HasData(below[i])])
      rowData == [i \in 1..m |-> [name \in names |-> CellString(below[i][LastColumn(name)])]]
      keyValues == IF n = 0 THEN {} ELSE {rowData[i][headers[1]] : i \in 1..m} \ {<<>>}
      LastRow(k) == CHOOSE i \in 1..m :
                      /\ rowData[i][headers[1]] = k
                      /\ \A j \in 1..m : rowData[j][headers[1]] = k => j <= i
  IN [headers |-> headers,
      rows |-> rowData,
      keyToRowIndex |-> [k \in keyValues |-> headerRow + LastRow(k)],
      columnToIndex |-> [name \in names |-> LastColumn(name) - 1]]

\* The loop of batchUpdate and saveUpdatedCells on a sheet given by its
\* cells: getCell(rowIndex - 1, colIndex) is sheet row rowIndex, column
\* colIndex + 1 of the grid.
RECURSIVE SetGridCells(_, _, _)
SetGridCells(grid, data, txs) ==
  IF txs = <<>> THEN grid
  ELSE LET tx == Head(txs)
           after == IF Resolves(data, tx)
                    THEN [grid EXCEPT ![data.keyToRowIndex[tx.key]] =
                            [@ EXCEPT ![data.columnToIndex[tx.column] + 1] = CoerceValue(tx.value)]]
                    ELSE grid
       IN SetGridCells(after, data, Tail(txs))

\* -------------------------------------------------------------- key letters
\* /^[A-Z]+$/i
IsColumnLetters(cs) ==
  cs # <<>> /\ \A i \in 1..Len(cs) : \E l \in 1..Len(Letters) : Letters[l] = UpperChar(cs[i])

\* upperLetter.charCodeAt(i) - 'A'.charCodeAt(0) + 1
LetterValue(c) == CHOOSE l \in 1..Len(Letters) : Letters[l] = c

RECURSIVE LetterSum(_)
LetterSum(cs) ==
  IF cs = <<>> THEN 0
  ELSE LetterSum(SubSeq(cs, 1, Len(cs) - 1)) * Len(Letters) + LetterValue(cs[Len(cs)])

\* The column number counted from 1.
ColumnLetterToNumber(letter) == LetterSum(ToUpper(letter))

\* columnLetterToIndex: 0-based.
ColumnLetterToIndex(letter) == LetterSum(ToUpper(letter)) - 1

\* getKeyColumnName: the key column the tool handlers look rows up by.
GetKeyColumnName(key, headers) ==
  IF key # "" /\ \E i \in 1..Len(headers) : headers[i] = key THEN key
  ELSE IF headers # <<>> THEN headers[1] ELSE "A"

\* resolveKeyColumn: sheetConfig.keyColumn after the call.
ResolveKeyColumn(key, headers) ==
  IF key = "" THEN key
  ELSE IF \E i \in 1..Len(headers) : headers[i] = key THEN key
  ELSE IF /\ IsColumnLetters(Chars(key))
          /\ ColumnLetterToIndex(Chars(key)) >= 0
          /\ ColumnLetterToIndex(Chars(key)) < Len(headers)
       THEN headers[ColumnLetterToIndex(Chars(key)) + 1]
  ELSE IF headers # <<>> THEN headers[1] ELSE "A"

\* sheetConfig.keyColumn as constructed, and the --key default.
DefaultKey == "A"

\* The keyColumn arguments of the configure calls: a header name and a
\* column letter.
ConfigureInputs == {"status", "B"}

\* ----------------------------------------------------------- tool handlers
\* An optional argument is <<>> when the caller left it out, else <<v>>.
\* handleQuery: conditions.every(...) on one row; `row[column] || ''`.
Matches(row, condition) ==
  LET column == condition[1]
      operator == condition[2]
      value == condition[3]
      cellValue == IF column \in DOMAIN row THEN row[column] ELSE <<>>
  IN CASE operator = "==" -> cellValue = value
       [] operator = "!=" -> cellValue # value
       [] OTHER -> TRUE

\* handleQuery: `if (limit && limit > 0)`.
LimitApplies(limit) == limit # <<>> /\ limit[1] # 0 /\ limit[1] > 0

\* Array.prototype.slice(0, n) for n > 0.
Slice(seq, n) == SubSeq(seq, 1, Min(n, Len(seq)))

\* handleQuery after loadData has returned data: the keys of the reply.
HandleQuery(data, key, conditions, limit) ==
  LET Every(row) == \A i \in 1..Len(conditions) : Matches(row, conditions[i])
      filtered == SelectSeq(data.rows, Every)
      results == IF LimitApplies(limit) THEN Slice(filtered, limit[1]) ELSE filtered
      keyName == GetKeyColumnName(key, data.headers)
  IN [thrown |-> FALSE, keys |-> [i \in 1..Len(results) |-> results[i][keyName]]]

\* A get that raises an error when no row holds the key.
GetOrThrow(data, key, k) ==
  LET keyName == GetKeyColumnName(key, data.headers)
      found == {i \in 1..Len(data.rows) : data.rows[i][keyName] = k}
  IN IF found = {}
     THEN [thrown |-> TRUE, error |-> "Key not found"]
     ELSE [thrown |-> FALSE, row |-> data.rows[CHOOSE i \in found : \A j \in found : i <= j]]

\* handleGet after loadData has returned data: the row found first, or the
\* not-found reply; neither is thrown.
HandleGet(data, key, k) ==
  LET keyName == GetKeyColumnName(key, data.headers)
      found == {i \in 1..Len(data.rows) : data.rows[i][keyName] = k}
  IN IF found = {}
     THEN [thrown |-> FALSE, error |-> "Key not found"]
     ELSE [thrown |-> FALSE, row |-> data.rows[CHOOSE i \in found : \A j \in found : i <= j]]

\* A configure that stores the header row before testing it.
ConfigureThenTest(config, args) ==
  LET keyed == IF args.keyColumn # <<>> /\ args.keyColumn[1] # ""
               THEN [config EXCEPT !.keyColumn = args.keyColumn[1]]
               ELSE config
  IN IF args.headerRow = <<>> THEN [thrown |-> FALSE, config |-> keyed]
     ELSE [thrown |-> args.headerRow[1] < 1,
           config |-> [keyed EXCEPT !.headerRow = args.headerRow[1]]]

\* handleConfigure: sheetConfig after the call and whether McpError
\* (InvalidParams) was thrown; `if (args.keyColumn)` skips the empty string.
HandleConfigure(config, args) ==
  LET keyed == IF args.keyColumn # <<>> /\ args.keyColumn[1] # ""
               THEN [config EXCEPT !.keyColumn = args.keyColumn[1]]
               ELSE config
  IN IF args.headerRow = <<>> THEN [thrown |-> FALSE, config |-> keyed]
     ELSE IF args.headerRow[1] < 1 THEN [thrown |-> TRUE, config |-> keyed]
     ELSE [thrown |-> FALSE, config |-> [keyed EXCEPT !.headerRow = args.headerRow[1]]]

\* handleAppendValue: `separator = '\n'`.
Separator == <<"\n">>

\* sheetConfig.headerRow as constructed.
DefaultHeaderRow == 1

\* A value with the separator in front whatever the cell holds.
AlwaysSeparated(currentValue, separator, value) == currentValue \o separator \o value

\* handleAppendValue: newValue.
NewValue(currentValue, separator, value) ==
  IF currentValue # <<>> THEN currentValue \o separator \o value ELSE value

\* handleAppendValue: currentValue, from the first row of data whose key
\* column holds k (`row ? (row[column] || '') : ''`).
CurrentValue(data, key, k, column) ==
  LET keyName == GetKeyColumnName(key, data.headers)
      found == {i \in 1..Len(data.rows) : data.rows[i][keyName] = k}
      row == CHOOSE i \in found : \A j \in found : i <= j
  IN IF found # {} /\ column \in DOMAIN data.rows[row] THEN data.rows[row][column] ELSE <<>>

\* handleAppendValue on the cached data (<<>> when there is none): what it
\* pushes to the queue, or the throw.
HandleAppendValue(cached, key, k, column, value, separator) ==
  IF cached = <<>> THEN [thrown |-> TRUE]
  ELSE [thrown |-> FALSE,
        pushed |-> <<[key |-> k, column |-> column,
                      value |-> NewValue(CurrentValue(cached[1], key, k, column),
                                         IF separator = <<>> THEN Separator ELSE separator[1],
                                         value)]>>]

\* ------------------------------------------------------------------ state
VARIABLES
  lifecycle,      \* "Starting", "Running", "Draining", "Stopped"
  exitCode,       \* -1 while the process runs, else the code it exited with
  isShuttingDown, \* GoogleSheetsMCPServer.isShuttingDown
  updateQueue,    \* GoogleSheetsMCPServer.updateQueue
  batchTimer,     \* GoogleSheetsMCPServer.batchTimer: "null", "armed", "cleared"
  timers,         \* count-downs of the live batch timers; batchTimer is the last
  cachedData,     \* GoogleSheetsClient.cachedData: <<>> (null) or <<SheetData>>
  sinceRead,      \* Date.now() - lastReadTime in ticks; Longer for all above ReadInterval
  sheet,          \* the data rows of the remote sheet
  tasks,          \* the running calls: slot 0 is the shutdown handler
  log,            \* the error entries and the stop entry written by the logger
  calls,          \* how many tool calls of each kind were made
  signalled,      \* the termination signals delivered so far
  last,           \* the call that ended most recently, as its caller saw it
  sinceStart,     \* ticks since a non-forced load last started a remote read
  finalFlushes,   \* how many flushes the shutdown handler started
  keyColumn,      \* GoogleSheetsMCPServer.sheetConfig.keyColumn
  probe           \* one call of a handler's computation: its arguments and its result

vars == << lifecycle, exitCode, isShuttingDown, updateQueue, batchTimer, timers,
           cachedData, sinceRead, sheet, tasks, log, calls, signalled,
           last, sinceStart, finalFlushes, keyColumn, probe >>

Pool == 1..MaxTasks

Slots == 0..MaxTasks

IdleTask ==
  [kind |-> "none", pc |-> "idle", phase |-> "read", attempt |-> 0, timer |-> 0,
   txs |-> <<>>, data |-> <<>>, throttled |-> FALSE, elapsed |-> 0, reads |-> 0]

NoCall ==
  [kind |-> "none", result |-> "none", phase |-> "read", attempt |-> 0, txs |-> <<>>,
   throttled |-> FALSE, reads |-> 0]

IsFree(t) == tasks[t].pc = "idle"

InFlight(t) == tasks[t].pc \in {"wait", "call"}

\* The slot a new call runs in: the lowest free one.
FreeSlot == CHOOSE t \in Pool : IsFree(t) /\ \A u \in Pool : IsFree(u) => t <= u

HasFreeSlot == \E t \in Pool : IsFree(t)

\* The id stands for the transaction's timestamp: Date.now() of the call.
NextId == calls.update + calls.append + calls.flush + 1

CallsMade == calls.update + calls.append + calls.flush + calls.query + calls.configure

Signals == <<"SIGINT", "SIGTERM">>

Entry(msg, txs) == [msg |-> msg, txs |-> txs]

\* No handler computation is under observation.
NoProbe == [op |-> "none", args |-> <<>>, result |-> <<>>, done |-> FALSE]

\* now - lastReadTime when it is more than readInterval (lastReadTime is 0
\* until the first read).
Longer == ReadInterval + 1

\* The server as constructed.
ServerInit ==
  /\ lifecycle = "Starting"
  /\ exitCode = -1
  /\ isShuttingDown = FALSE
  /\ updateQueue = <<>>
  /\ batchTimer = "null"
  /\ timers = <<>>
  /\ cachedData = <<>>
  /\ sinceRead = Longer
  /\ sheet = InitialSheet
  /\ tasks = [t \in Slots |-> IdleTask]
  /\ log = {}
  /\ calls = [update |-> 0, append |-> 0, flush |-> 0, query |-> 0, configure |-> 0]
  /\ signalled = <<>>
  /\ last = NoCall
  /\ sinceStart = ReadInterval
  /\ finalFlushes = 0
  /\ keyColumn = DefaultKey

Init == ServerInit /\ probe = NoProbe

Serving == lifecycle \in {"Running", "Draining"}

\* The process has not exited.
Alive == lifecycle # "Stopped"

\* A handler that returns without ending the process: the transport keeps
\* it alive.
NoExit(code) == UNCHANGED << lifecycle, exitCode >>

\* process.exit(code): nothing runs afterwards.
Exit(code) ==
  /\ lifecycle' = "Stopped"
  /\ exitCode' = code

\* ------------------------------------------------------- retry and loading
\* A retry loop that allows one attempt more.
MayRetryOnceMore(attempt) == attempt <= maxRetries

\* retryOperation: `attempt < this.maxRetries` decides whether a failed
\* attempt is followed by a back-off and another attempt.
MayRetry(attempt) == attempt < maxRetries

\* retryOperation: the loop's attempt++.
NextAttempt(attempt) == attempt + 1

\* A throttle that holds forced loads back as well.
ThrottledEvenIfForced(force) == cachedData # <<>> /\ sinceRead < ReadInterval

\* loadData: the throttle condition.
Throttled(force) == ~force /\ cachedData # <<>> /\ sinceRead < ReadInterval

\* A throttle that does not wait.
NoWaitTime(age) == 0

\* loadData: waitTime = readInterval - (now - lastReadTime).
WaitTime(age) == ReadInterval - age

\* A call that enters loadData(force) and, unless throttled, starts the
\* first attempt of the read.
BeginLoad(kind, txs, force) ==
  IF Throttled(force)
  THEN [IdleTask EXCEPT !.kind = kind, !.pc = "wait", !.timer = WaitTime(sinceRead),
                        !.txs = txs, !.throttled = TRUE, !.elapsed = sinceRead]
  ELSE [IdleTask EXCEPT !.kind = kind, !.pc = "call", !.phase = "read", !.attempt = 1,
                        !.txs = txs, !.reads = 1]

\* What the caller of an ended call sees.
Ended(task, result) ==
  [kind |-> task.kind, result |-> result, phase |-> task.phase,
   attempt |-> task.attempt, txs |-> task.txs, throttled |-> task.throttled,
   reads |-> task.reads]

\* ---------------------------------------------------------------- startup
\* start's catch when initialize throws for a sheet that is not in the
\* document: logger.error('Failed to start server', { error }), the error
\* being initialize's 'Sheet <name> not found'.
SheetNotFound == Entry("Failed to start server: sheet not found", <<>>)

\* main / start: initialize() either finds the sheet, and start goes on to
\* resolveKeyColumn, whose loadData() starts the first remote read, or it
\* throws, start logs the failure and main exits with code 1.
Start ==
  /\ lifecycle = "Starting"
  /\ \A t \in Slots : IsFree(t)
  /\ \E found \in BOOLEAN :
       IF found
       THEN /\ tasks' = [tasks EXCEPT ![FreeSlot] = BeginLoad("resolve", <<>>, FALSE)]
            /\ sinceStart' = 0
            /\ UNCHANGED << lifecycle, exitCode, log >>
       ELSE /\ log' = log \cup {SheetNotFound}
            /\ Exit(1)
            /\ UNCHANGED << tasks, sinceStart >>
  /\ UNCHANGED << isShuttingDown, updateQueue, batchTimer, timers, cachedData,
                  sinceRead, sheet, calls, signalled, last, finalFlushes, keyColumn >>
  /\ UNCHANGED probe

\* ------------------------------------------------------- queue and timer
Write(inp, id) == [key |-> inp[1], column |-> inp[2], value |-> inp[3], id |-> id]

\* A scheduler that arms a timer whether or not the handle is set.
Reschedule(timer, shuttingDown, live) ==
  IF shuttingDown THEN live ELSE Append(live, BatchInterval)

\* scheduleBatchUpdate: the live timers after the call (a cleared Timeout
\* object is still truthy, so it blocks a new setTimeout as an armed one does).
ScheduleBatchUpdate(timer, shuttingDown, live) ==
  IF timer # "null" \/ shuttingDown THEN live ELSE Append(live, BatchInterval)

\* A shutdown that leaves the pending timer alone.
KeepTimeout(timer, live) == live

\* clearTimeout(this.batchTimer): the live timers without the one the handle
\* refers to.
ClearTimeout(timer, live) ==
  IF timer = "armed" THEN SubSeq(live, 1, Len(live) - 1) ELSE live

\* The live timer whose callback runs next: the first one that is due.
DueTimer == CHOOSE i \in 1..Len(timers) : timers[i] = 0 /\ \A j \in 1..(i - 1) : timers[j] # 0

RemoveAt(seq, i) == SubSeq(seq, 1, i - 1) \o SubSeq(seq, i + 1, Len(seq))

\* executeBatchUpdate: const transactions = [...this.updateQueue].
TakeBatch(queue) == queue

\* A report that lists the queue, as the shutdown handler's own entry does.
QueueReport(transactions, queue) == queue

\* executeBatchUpdate: the transactions attached to 'Batch update failed'.
BatchFailedReport(transactions, queue) == transactions

\* handleUpdate: push, then scheduleBatchUpdate.
Update ==
  /\ Serving
  /\ CallsMade < MaxCalls
  /\ \E inp \in WriteInputs : updateQueue' = Append(updateQueue, Write(inp, NextId))
  /\ timers' = ScheduleBatchUpdate(batchTimer, isShuttingDown, timers)
  /\ batchTimer' = IF timers' # timers THEN "armed" ELSE batchTimer
  /\ calls' = [calls EXCEPT !.update = @ + 1]
  /\ UNCHANGED << lifecycle, exitCode, isShuttingDown, cachedData, sinceRead, sheet,
                  tasks, log, signalled, last, sinceStart, finalFlushes, keyColumn >>
  /\ UNCHANGED probe

\* handleConfigure: the key specification is stored as given.
Configure ==
  /\ Serving
  /\ CallsMade < MaxCalls
  /\ \E key \in ConfigureInputs :
       keyColumn' = HandleConfigure([keyColumn |-> keyColumn, headerRow |-> DefaultHeaderRow],
                                    [keyColumn |-> <<key>>, headerRow |-> <<>>]).config.keyColumn
  /\ calls' = [calls EXCEPT !.configure = @ + 1]
  /\ UNCHANGED << lifecycle, exitCode, isShuttingDown, updateQueue, batchTimer, timers,
                  cachedData, sinceRead, sheet, tasks, log, signalled, last, sinceStart,
                  finalFlushes >>
  /\ UNCHANGED probe

\* The arguments (key, column, value) of the append_value calls; the
\* separator is the default.
AppendInputs == { <<K1, "status", <<"b">>>> }

\* handleAppendValue: the value to enqueue, from the row the cached data has
\* for the key.
AppendedValue(data, key, column, value) ==
  NewValue(CurrentValue(data, keyColumn, key, column), Separator, value)

\* handleAppendValue: without cached data it throws into the tool-call
\* handler; else push, then scheduleBatchUpdate.
AppendValue ==
  /\ Serving
  /\ CallsMade < MaxCalls
  /\ calls' = [calls EXCEPT !.append = @ + 1]
  /\ IF cachedData = <<>>
     THEN /\ log' = log \cup {Entry("Tool execution error", <<>>)}
          /\ UNCHANGED << updateQueue, batchTimer, timers >>
     ELSE /\ \E inp \in AppendInputs :
               updateQueue' = Append(updateQueue,
                 Write(<<inp[1], inp[2], AppendedValue(cachedData[1], inp[1], inp[2], inp[3])>>,
                       NextId))
          /\ timers' = ScheduleBatchUpdate(batchTimer, isShuttingDown, timers)
          /\ batchTimer' = IF timers' # timers THEN "armed" ELSE batchTimer
          /\ log' = log
  /\ UNCHANGED << lifecycle, exitCode, isShuttingDown, cachedData, sinceRead, sheet,
                  tasks, signalled, last, sinceStart, finalFlushes, keyColumn >>
  /\ UNCHANGED probe

\* The setTimeout callback of scheduleBatchUpdate: executeBatchUpdate up to
\* the first remote call of batchUpdate.
TimerFire ==
  /\ Serving
  /\ \E i \in 1..Len(timers) : timers[i] = 0
  /\ HasFreeSlot
  /\ timers' = RemoveAt(timers, DueTimer)
  /\ batchTimer' = "null"
  /\ IF updateQueue = <<>>
     THEN UNCHANGED << updateQueue, tasks >>
     ELSE /\ updateQueue' = <<>>
          /\ tasks' = [tasks EXCEPT ![FreeSlot] = BeginLoad("batch", TakeBatch(updateQueue), TRUE)]
  /\ UNCHANGED << lifecycle, exitCode, isShuttingDown, cachedData, sinceRead,
                  sheet, log, calls, signalled, last, sinceStart, finalFlushes, keyColumn >>
  /\ UNCHANGED probe

\* handleFlush: batchUpdate of one transaction, up to its first remote call.
Flush ==
  /\ Serving
  /\ CallsMade < MaxCalls
  /\ HasFreeSlot
  /\ \E inp \in FlushInputs :
       tasks' = [tasks EXCEPT ![FreeSlot] = BeginLoad("flush", <<Write(inp, NextId)>>, TRUE)]
  /\ calls' = [calls EXCEPT !.flush = @ + 1]
  /\ UNCHANGED << lifecycle, exitCode, isShuttingDown, updateQueue, batchTimer, timers,
                  cachedData, sinceRead, sheet, log, signalled, last, sinceStart,
                  finalFlushes, keyColumn >>
  /\ UNCHANGED probe

\* handleQuery / handleGet: loadData() up to its wait or its first remote call.
Query ==
  /\ Serving
  /\ CallsMade < MaxCalls
  /\ HasFreeSlot
  /\ tasks' = [tasks EXCEPT ![FreeSlot] = BeginLoad("query", <<>>, FALSE)]
  /\ sinceStart' = IF Throttled(FALSE) THEN sinceStart ELSE 0
  /\ calls' = [calls EXCEPT !.query = @ + 1]
  /\ UNCHANGED << lifecycle, exitCode, isShuttingDown, updateQueue, batchTimer, timers,
                  cachedData, sinceRead, sheet, log, signalled, last,
                  finalFlushes, keyColumn >>
  /\ UNCHANGED probe

\* loadData: the throttle's setTimeout resolves and the read starts.
WaitDone(t) ==
  /\ Serving
  /\ tasks[t].pc = "wait"
  /\ tasks[t].timer = 0
  /\ tasks' = [tasks EXCEPT ![t] = [@ EXCEPT !.pc = "call", !.phase = "read",
                                               !.attempt = 1, !.reads = @ + 1]]
  /\ sinceStart' = 0
  /\ UNCHANGED << lifecycle, exitCode, isShuttingDown, updateQueue, batchTimer, timers,
                  cachedData, sinceRead, sheet, log, calls, signalled, last,
                  finalFlushes, keyColumn >>
  /\ UNCHANGED probe

StoppedEntry == Entry("Server stopped", <<>>)

\* A batch whose values are also put into the rows of the cached data.
WriteThrough(cached, txs) ==
  IF cached = <<>> THEN cached
  ELSE LET Hit(row) == {i \in 1..Len(txs) :
                          txs[i].key = row[cached[1].headers[1]] /\ txs[i].column \in DOMAIN row}
           Put(row) == IF Hit(row) = {} THEN row
                       ELSE LET i == CHOOSE h \in Hit(row) : \A g \in Hit(row) : g <= h
                            IN [row EXCEPT ![txs[i].column] = txs[i].value]
       IN <<[cached[1] EXCEPT !.rows = [r \in DOMAIN cached[1].rows |-> Put(cached[1].rows[r])]]>>

\* batchUpdate's loop and saveUpdatedCells: the values go to the cells of
\* the sheet object; the data loadData returned, which is the cached data,
\* is only read.
CachedAfterBatch(cached, txs) == cached

\* An attempt of the remote call in flight succeeds.
AttemptOk(t) ==
  /\ Alive
  /\ tasks[t].pc = "call"
  /\ IF tasks[t].phase = "read"
     THEN \* loadData: the operation returns; cachedData and lastReadTime are set
          LET data == LoadRows(sheet) IN
          /\ cachedData' = <<data>>
          /\ sinceRead' = 0
          /\ CASE tasks[t].kind = "resolve" ->
                    \* resolveKeyColumn goes on, start connects the transport
                    /\ tasks' = [tasks EXCEPT ![t] = IdleTask]
                    /\ last' = Ended(tasks[t], "ok")
                    /\ keyColumn' = ResolveKeyColumn(keyColumn, data.headers)
                    /\ lifecycle' = "Running"
               [] tasks[t].kind = "query" ->
                    /\ tasks' = [tasks EXCEPT ![t] = IdleTask]
                    /\ last' = Ended(tasks[t], "ok")
                    /\ UNCHANGED << keyColumn, lifecycle >>
               [] OTHER ->
                    /\ tasks' = [tasks EXCEPT ![t] =
                                   [@ EXCEPT !.phase = "write", !.attempt = 1, !.data = <<data>>]]
                    /\ UNCHANGED << last, keyColumn, lifecycle >>
          /\ UNCHANGED << exitCode, sheet, log >>
     ELSE \* batchUpdate: loadCells, the loop and saveUpdatedCells succeed
          /\ sheet' = ApplyWrites(sheet, tasks[t].data[1], tasks[t].txs)
          /\ tasks' = [tasks EXCEPT ![t] = IdleTask]
          /\ last' = Ended(tasks[t], "ok")
          /\ IF tasks[t].kind = "final"
             THEN log' = log \cup {StoppedEntry} /\ Exit(0)
             ELSE UNCHANGED << log, lifecycle, exitCode >>
          /\ cachedData' = CachedAfterBatch(cachedData, tasks[t].txs)
          /\ UNCHANGED << sinceRead, keyColumn >>
  /\ UNCHANGED << isShuttingDown, updateQueue, batchTimer, timers, calls, signalled,
                  sinceStart, finalFlushes >>
  /\ UNCHANGED probe

\* A loadData that stamps the time of the read whether or not it succeeded.
StampReadTime(age) == 0

\* loadData: lastReadTime is assigned after retryOperation has returned, so a
\* read that throws leaves the age of the last read as it is.
KeepReadTime(age) == age

\* An attempt of the remote call in flight throws.
AttemptFail(t) ==
  /\ Alive
  /\ tasks[t].pc = "call"
  /\ IF MayRetry(tasks[t].attempt)
     THEN \* the back-off (2^attempt seconds) and the next attempt's remote
          \* call are one suspension of the task
          /\ tasks' = [tasks EXCEPT ![t] = [@ EXCEPT !.attempt = NextAttempt(@)]]
          /\ UNCHANGED << log, lifecycle, exitCode, last >>
     ELSE /\ tasks' = [tasks EXCEPT ![t] = IdleTask]
          /\ last' = Ended(tasks[t], "exhausted")
          /\ CASE tasks[t].kind = "resolve" ->
                    \* start logs and rethrows, main exits
                    /\ log' = log \cup {Entry("Failed to start server", <<>>)}
                    /\ Exit(1)
               [] tasks[t].kind \in {"query", "flush"} ->
                    \* the error reaches the tool-call handler
                    /\ log' = log \cup {Entry("Tool execution error", <<>>)}
                    /\ UNCHANGED << lifecycle, exitCode >>
               [] tasks[t].kind = "batch" ->
                    \* executeBatchUpdate logs and rethrows into the timer
                    \* callback: an unhandled rejection, which ends the
                    \* process unless the runtime is told to tolerate it
                    /\ log' = log \cup {Entry("Batch update failed",
                                              BatchFailedReport(tasks[t].txs, updateQueue))}
                    /\ \E crash \in BOOLEAN :
                         IF crash THEN Exit(1) ELSE UNCHANGED << lifecycle, exitCode >>
               [] tasks[t].kind = "final" ->
                    \* executeBatchUpdate logs and rethrows; shutdown catches,
                    \* logs the queue and exits
                    /\ log' = log \cup {Entry("Batch update failed",
                                              BatchFailedReport(tasks[t].txs, updateQueue)),
                                        Entry("Failed to execute final batch update", updateQueue),
                                        StoppedEntry}
                    /\ Exit(0)
  /\ sinceRead' = KeepReadTime(sinceRead)
  /\ UNCHANGED << isShuttingDown, updateQueue, batchTimer, timers, cachedData,
                  sheet, calls, signalled, sinceStart, finalFlushes, keyColumn >>
  /\ UNCHANGED probe

\* ---------------------------------------------------------------- shutdown
\* A handler without the re-entry guard.
NeverShuttingDown == FALSE

\* shutdown: `if (this.isShuttingDown) return`.
AlreadyShuttingDown == isShuttingDown

\* The SIGINT/SIGTERM handler, up to the first remote call of the final
\* batch, or up to process.exit when the queue is empty.
Signal ==
  /\ lifecycle # "Stopped"
  /\ Len(signalled) < Len(Signals)
  /\ signalled' = Append(signalled, Signals[Len(signalled) + 1])
  /\ IF AlreadyShuttingDown
     THEN UNCHANGED << lifecycle, exitCode, isShuttingDown, updateQueue, batchTimer,
                       timers, tasks, log, finalFlushes >>
     ELSE /\ isShuttingDown' = TRUE
          /\ timers' = ClearTimeout(batchTimer, timers)
          /\ IF Len(updateQueue) > 0
             THEN /\ updateQueue' = <<>>
                  /\ batchTimer' = "null"
                  /\ tasks' = [tasks EXCEPT ![0] = BeginLoad("final", TakeBatch(updateQueue), TRUE)]
                  /\ finalFlushes' = finalFlushes + 1
                  /\ lifecycle' = "Draining"
                  /\ UNCHANGED << exitCode, log >>
             ELSE /\ batchTimer' = IF batchTimer = "armed" THEN "cleared" ELSE batchTimer
                  /\ log' = log \cup {StoppedEntry}
                  /\ Exit(0)
                  /\ UNCHANGED << updateQueue, tasks, finalFlushes >>
  /\ UNCHANGED << cachedData, sinceRead, sheet, calls, last, sinceStart, keyColumn >>
  /\ UNCHANGED probe

\* ------------------------------------------------------------ other editors
\* Another user of the spreadsheet inserts a row above the first data row
\* of a sheet that has not shrunk, or deletes the first data row of a sheet
\* that has not grown.
ExternalEdit ==
  /\ Alive
  /\ \/ /\ Len(sheet) >= Len(InitialSheet)
        /\ Len(sheet) < Len(InitialSheet) + MaxEdits
        /\ sheet' = <<InsertedRow>> \o sheet
     \/ /\ Len(sheet) <= Len(InitialSheet)
        /\ Len(sheet) > Len(InitialSheet) - MaxEdits
        /\ sheet' = Tail(sheet)
  /\ UNCHANGED << lifecycle, exitCode, isShuttingDown, updateQueue, batchTimer, timers,
                  cachedData, sinceRead, tasks, log, calls, signalled, last, sinceStart,
                  finalFlushes, keyColumn >>
  /\ UNCHANGED probe

\* -------------------------------------------------------------------- time
\* A timer whose callback is ready to run.
TimerDue ==
  \/ HasFreeSlot /\ \E i \in 1..Len(timers) : timers[i] = 0
  \/ \E t \in Slots : tasks[t].pc = "wait" /\ tasks[t].timer = 0

\* One tick passes: every running count-down moves, every age grows.
Tick ==
  /\ Alive
  /\ ~TimerDue
  /\ \/ \E i \in 1..Len(timers) : timers[i] > 0
     \/ \E t \in Slots : tasks[t].pc = "wait"
     \/ sinceRead < ReadInterval
     \/ sinceStart < ReadInterval
  /\ timers' = [i \in 1..Len(timers) |-> Max(timers[i] - 1, 0)]
  /\ tasks' = [t \in Slots |->
                 IF tasks[t].pc = "wait"
                 THEN [tasks[t] EXCEPT !.timer = Max(@ - 1, 0),
                                       !.elapsed = Min(@ + 1, ReadInterval)]
                 ELSE tasks[t]]
  /\ sinceRead' = Min(sinceRead + 1, Longer)
  /\ sinceStart' = Min(sinceStart + 1, ReadInterval)
  /\ UNCHANGED << lifecycle, exitCode, isShuttingDown, updateQueue, batchTimer,
                  cachedData, sheet, log, calls, signalled, last, finalFlushes, keyColumn >>
  /\ UNCHANGED probe

Next ==
  \/ Start
  \/ Update
  \/ AppendValue
  \/ Configure
  \/ TimerFire
  \/ Flush
  \/ Query
  \/ \E t \in Slots : WaitDone(t)
  \/ \E t \in Slots : AttemptOk(t)
  \/ \E t \in Slots : AttemptFail(t)
  \/ Signal
  \/ ExternalEdit
  \/ Tick

Spec == Init /\ [][Next]_vars

\* The write path alone: deferred writes, the batch timer, the batches
\* and the shutdown handler.
NextWrite ==
  \/ Start
  \/ Update
  \/ TimerFire
  \/ \E t \in Slots : AttemptOk(t)
  \/ \E t \in Slots : AttemptFail(t)
  \/ Signal
  \/ Tick

WriteSpec == Init /\ [][NextWrite]_vars

\* The calls that go to the remote sheet at once: loads and immediate
\* flushes.
NextRead ==
  \/ Start
  \/ Flush
  \/ Query
  \/ \E t \in Slots : WaitDone(t)
  \/ \E t \in Slots : AttemptOk(t)
  \/ \E t \in Slots : AttemptFail(t)
  \/ Tick

ReadSpec == Init /\ [][NextRead]_vars

\* Deferred and immediate writes side by side, against a remote sheet whose
\* calls all succeed at the first attempt: the queue, the batch timer, the
\* batches and the immediate flushes.
NextFlush ==
  \/ Start
  \/ Update
  \/ TimerFire
  \/ Flush
  \/ \E t \in Slots : AttemptOk(t)
  \/ Tick

FlushSpec == Init /\ [][NextFlush]_vars

\* The shutdown handler alone, for a signal that arrives before the batch
\* timer is due: enqueues, the signals and the final flush, under the
\* assumption that every remote call returns or throws, so that an attempt
\* in flight does not stay in flight forever.
NextDrain ==
  \/ Start
  \/ Update
  \/ \E t \in Slots : AttemptOk(t)
  \/ \E t \in Slots : AttemptFail(t)
  \/ Signal

DrainSpec == Init /\ [][NextDrain]_vars /\ \A t \in Slots : WF_vars(AttemptOk(t) \/ AttemptFail(t))

\* The cached data and its users, against a remote sheet whose calls all
\* succeed at the first attempt: the calls that read the cache or cause a
\* read, the batches and the reads themselves.
NextCache ==
  \/ Start
  \/ Update
  \/ AppendValue
  \/ TimerFire
  \/ Flush
  \/ Query
  \/ \E t \in Slots : WaitDone(t)
  \/ \E t \in Slots : AttemptOk(t)
  \/ Tick

CacheSpec == Init /\ [][NextCache]_vars

\* The server after a successful start, one appendValue and the batch
\* interval: the cached data is the sheet as started, the appended value is
\* queued and the batch timer is due.
RetryInit ==
  LET data == LoadRows(InitialSheet)
      key == ResolveKeyColumn(DefaultKey, data.headers)
      inp == CHOOSE a \in AppendInputs : TRUE
      value == NewValue(CurrentValue(data, key, inp[1], inp[2]), Separator, inp[3])
  IN /\ lifecycle = "Running"
     /\ exitCode = -1
     /\ isShuttingDown = FALSE
     /\ updateQueue = <<Write(<<inp[1], inp[2], value>>, 1)>>
     /\ batchTimer = "armed"
     /\ timers = <<0>>
     /\ cachedData = <<data>>
     /\ sinceRead = Min(BatchInterval, Longer)
     /\ sheet = InitialSheet
     /\ tasks = [t \in Slots |-> IdleTask]
     /\ log = {}
     /\ calls = [update |-> 0, append |-> 1, flush |-> 0, query |-> 0, configure |-> 0]
     /\ signalled = <<>>
     /\ last = Ended([IdleTask EXCEPT !.kind = "resolve", !.pc = "call", !.phase = "read",
                                      !.attempt = 1, !.reads = 1], "ok")
     /\ sinceStart = Min(BatchInterval, ReadInterval)
     /\ finalFlushes = 0
     /\ keyColumn = key
     /\ probe = NoProbe

\* The calls against a remote sheet whose attempts may throw, from the moment
\* the batch timer is due: the scheduled batch and the immediate flushes,
\* each with its forced read, the reads of query and get, and the retries of
\* every remote call.
NextRetry ==
  \/ TimerFire
  \/ Flush
  \/ Query
  \/ \E t \in Slots : AttemptOk(t)
  \/ \E t \in Slots : AttemptFail(t)

RetrySpec == RetryInit /\ [][NextRetry]_vars

\* ------------------------------------------------- the handlers by themselves
\* The variables of the server, which a handler's computation on given
\* arguments leaves alone.
serverVars == << lifecycle, exitCode, isShuttingDown, updateQueue, batchTimer, timers,
                 cachedData, sinceRead, sheet, tasks, log, calls, signalled,
                 last, sinceStart, finalFlushes, keyColumn >>

\* A sheet with status values, two rows sharing one.
ProbeSheet ==
  << [id |-> StrCell(K1), status |-> StrCell(<<"a">>)],
     [id |-> StrCell(K2), status |-> StrCell(<<>>)],
     [id |-> StrCell(K3), status |-> StrCell(<<"a">>)] >>

\* The data loadData returns for the sheets.
ProbeData == {LoadRows(InitialSheet), LoadRows(ProbeSheet)}

\* Header rows: the sheet's, one with a header named like a column letter,
\* and one wide enough for a two-letter column.
WideHeaders ==
  << "id", "status", "c3", "c4", "c5", "c6", "c7", "c8", "c9", "c10", "c11", "c12",
     "c13", "c14", "c15", "c16", "c17", "c18", "c19", "c20", "c21", "c22", "c23",
     "c24", "c25", "c26", "c27" >>

HeaderLists == {SheetHeaders, <<"id", "status", "B">>, WideHeaders}

\* Key specifications: header names, column letters in and out of range,
\* and text that is neither.
KeySpecs == {"id", "status", "A", "B", "C", "b", "Z", "AA", "AB", "k1", "note"}

\* Conditions of query calls: [column, operator, value].
QueryConditions ==
  { <<"status", "==", <<"a">>>>, <<"status", "!=", <<"a">>>>,
    <<"note", "==", <<"a">>>>, <<"note", "!=", <<"a">>>>, <<"note", "==", <<>>>>,
    <<"status", "<", <<"a">>>> }

ConditionLists ==
  {<<>>} \cup {<<c>> : c \in QueryConditions}
         \cup {<<c, d>> : c \in QueryConditions, d \in QueryConditions}

Limits == {<<>>} \cup {<<n>> : n \in (-1)..MaxLimit}

\* Transaction values for the type conversion.
CoerceInputs ==
  { <<>>, <<" ">>, <<"a">>, <<"0">>, <<"7">>, <<"1", "2">>, <<" ", "7">>, <<"7", " ">>,
    <<"7", " ", "7">>, <<"7", "a">>,
    <<"t", "r", "u", "e">>, <<"T", "R", "U", "E">>, <<"T", "r", "u", "e">>,
    <<" ", "t", "r", "u", "e">>, <<"t", "r", "u", "e", " ">>, <<"t", "r", "u">>,
    <<"f", "a", "l", "s", "e">>, <<"F", "A", "L", "S", "E">>, <<"F", "a", "l", "s", "e", " ">>,
    <<"f", "a", "l", "s", "e", "x">> }

HeaderRows == {<<>>} \cup {<<n>> : n \in (-1)..MaxHeaderRow}

\* Rows of a grid of three columns: header rows, a title row above them,
\* and the rows below the header in several arrangements: an empty row
\* before the last row, a key held by two rows, a row without a key, a row
\* whose only value is outside the header columns, and a row whose values
\* are the number 0 and the boolean false.
GridHeaders ==
  { <<StrCell(Chars("id")), StrCell(Chars("status")), Blank>>,
    <<StrCell(Chars("id")), Blank, StrCell(Chars("status"))>>,
    <<StrCell(Chars("id")), StrCell(Chars("status")), StrCell(Chars("note"))>> }

TitleRow == <<StrCell(<<"a">>), Blank, Blank>>

GridBodies ==
  { << <<StrCell(K1), StrCell(<<"a">>), Blank>>, <<StrCell(K2), Blank, Blank>>,
       <<Blank, Blank, Blank>>, <<StrCell(K3), StrCell(<<"a">>), Blank>> >>,
    << <<StrCell(K1), StrCell(<<"a">>), Blank>>, <<StrCell(K1), NumCell(7), Blank>>,
       <<StrCell(K2), BoolCell(TRUE), Blank>> >>,
    << <<Blank, StrCell(<<"a">>), Blank>>, <<StrCell(K2), Blank, StrCell(<<"a">>)>>,
       <<Blank, Blank, StrCell(<<"a">>)>>, <<StrCell(K3), Blank, Blank>> >>,
    << <<StrCell(K1), NumCell(0), Blank>>, <<NumCell(0), BoolCell(FALSE), Blank>>,
       <<NumCell(1), NumCell(0), Blank>> >>,
    << >> }

\* A sheet whose header is row headerRow.
Grid(headerRow, header, body) == [i \in 1..(headerRow - 1) |-> TitleRow] \o <<header>> \o body

Probe(op, args) == [op |-> op, args |-> args, result |-> <<>>, done |-> FALSE]

\* The calls under observation, one per behaviour.
ToolCalls ==
  {Probe("resolve", [key |-> k, headers |-> h]) : k \in KeySpecs, h \in HeaderLists}
  \cup {Probe("query", [data |-> d, key |-> "id", conditions |-> c, limit |-> l]) :
          d \in ProbeData, c \in ConditionLists, l \in Limits}
  \cup {Probe("get", [data |-> d, key |-> ks, k |-> k]) :
          d \in ProbeData, ks \in {"id", "status"}, k \in {K1, K3, KX, <<"a">>, <<>>}}
  \cup {Probe("append", [cached |-> c, key |-> "id", k |-> k, column |-> col,
                          value |-> v, separator |-> sep]) :
          c \in {<<>>} \cup {<<d>> : d \in ProbeData}, k \in {K1, K2, KX},
          col \in {"status", "note"}, v \in {<<"b">>, <<>>},
          sep \in {<<>>, <<(<<",">>)>>, <<(<<>>)>>}}
  \cup {Probe("coerce", [value |-> v]) : v \in CoerceInputs}
  \cup {Probe("write", [value |-> v, headerRow |-> h, twice |-> t]) :
          v \in CoerceInputs, h \in 1..MaxHeaderRow, t \in BOOLEAN}
  \cup {Probe("load", [grid |-> Grid(h, header, body), headerRow |-> h]) :
          h \in 2..MaxHeaderRow, header \in GridHeaders, body \in GridBodies}
  \cup {Probe("configure", [config |-> [keyColumn |-> "id", headerRow |-> r],
                             keyColumn |-> k, headerRow |-> h]) :
          r \in 1..MaxHeaderRow, k \in {<<>>, <<"">>, <<"status">>}, h \in HeaderRows}

ToolInit == ServerInit /\ probe \in ToolCalls

\* The probe once the call has returned result.
Answered(result) == [probe EXCEPT !.result = result, !.done = TRUE]

ResolveKeyColumnCall ==
  /\ probe.op = "resolve"
  /\ ~probe.done
  /\ probe' = Answered(ResolveKeyColumn(probe.args.key, probe.args.headers))
  /\ UNCHANGED serverVars

HandleQueryCall ==
  /\ probe.op = "query"
  /\ ~probe.done
  /\ probe' = Answered(HandleQuery(probe.args.data, probe.args.key, probe.args.conditions,
                                   probe.args.limit))
  /\ UNCHANGED serverVars

HandleGetCall ==
  /\ probe.op = "get"
  /\ ~probe.done
  /\ probe' = Answered(HandleGet(probe.args.data, probe.args.key, probe.args.k))
  /\ UNCHANGED serverVars

HandleAppendValueCall ==
  /\ probe.op = "append"
  /\ ~probe.done
  /\ probe' = Answered(HandleAppendValue(probe.args.cached, probe.args.key, probe.args.k,
                                         probe.args.column, probe.args.value,
                                         probe.args.separator))
  /\ UNCHANGED serverVars

\* One transaction of batchUpdate's loop: the value given to the cell, and
\* the transaction's value after it.
CoerceCall ==
  /\ probe.op = "coerce"
  /\ ~probe.done
  /\ probe' = Answered([cell |-> CoerceValue(probe.args.value), value |-> probe.args.value])
  /\ UNCHANGED serverVars

\* loadData with a header row other than 1, on a sheet with the given cells.
LoadDataByCellsCall ==
  /\ probe.op = "load"
  /\ ~probe.done
  /\ probe' = Answered(LoadDataByCells(probe.args.grid, probe.args.headerRow))
  /\ UNCHANGED serverVars

\* The sheet of the write probes: header id, status, note and the rows k1, k2,
\* or with k1 in two rows.
WrittenHeader == <<StrCell(Chars("id")), StrCell(Chars("status")), StrCell(Chars("note"))>>

WrittenBody(twice) ==
  IF twice
  THEN << <<StrCell(K1), StrCell(<<"a">>), Blank>>, <<StrCell(K1), StrCell(<<"b">>), Blank>>,
          <<StrCell(K2), Blank, Blank>> >>
  ELSE << <<StrCell(K1), StrCell(<<"a">>), Blank>>, <<StrCell(K2), Blank, Blank>> >>

\* The same rows with the header row 1: the data rows of the sheet.
WrittenRows(twice) ==
  [i \in 1..Len(WrittenBody(twice)) |->
     [id |-> WrittenBody(twice)[i][1], status |-> WrittenBody(twice)[i][2]]]

\* The sheet before the flush of a write probe.
WrittenStore(args) ==
  IF args.headerRow = 1 THEN WrittenRows(args.twice)
  ELSE Grid(args.headerRow, WrittenHeader, WrittenBody(args.twice))

\* loadData on a sheet of the write probes.
LoadWritten(store, headerRow) ==
  IF headerRow = 1 THEN LoadRows(store) ELSE LoadDataByCells(store, headerRow)

\* The transaction of the write probes: column status of the row of k1.
WrittenTransaction == [key |-> K1, column |-> "status", value |-> probe.args.value, id |-> 1]

\* flush(k1, status, value): batchUpdate of the one transaction, with the
\* header row 1 on the sheet of rows, with another header row on the grid.
\* The probe then holds the sheet after saveUpdatedCells.
BatchUpdateCall ==
  /\ probe.op = "write"
  /\ ~probe.done
  /\ probe' = [probe EXCEPT
       !.op = "written",
       !.result =
         LET store == WrittenStore(probe.args)
             data == LoadWritten(store, probe.args.headerRow)
         IN IF probe.args.headerRow = 1
            THEN ApplyWrites(store, data, <<WrittenTransaction>>)
            ELSE SetGridCells(store, data, <<WrittenTransaction>>)]
  /\ UNCHANGED serverVars

\* get(k1) after the flush: loadData on the written sheet, then handleGet.
GetWrittenCall ==
  /\ probe.op = "written"
  /\ ~probe.done
  /\ probe' = Answered(
       [store |-> probe.result,
        reply |-> HandleGet(LoadWritten(probe.result, probe.args.headerRow), "id", K1)])
  /\ UNCHANGED serverVars

HandleConfigureCall ==
  /\ probe.op = "configure"
  /\ ~probe.done
  /\ probe' = Answered(HandleConfigure(probe.args.config,
                                       [keyColumn |-> probe.args.keyColumn,
                                        headerRow |-> probe.args.headerRow]))
  /\ UNCHANGED serverVars

NextTool ==
  \/ ResolveKeyColumnCall
  \/ HandleQueryCall
  \/ HandleGetCall
  \/ HandleAppendValueCall
  \/ CoerceCall
  \/ LoadDataByCellsCall
  \/ BatchUpdateCall
  \/ GetWrittenCall
  \/ HandleConfigureCall

ToolSpec == ToolInit /\ [][NextTool]_vars

\* ------------------------------------------------------------- properties
Range(s) == {s[i] : i \in 1..Len(s)}

SameCell(a, b) == a.key = b.key /\ a.column = b.column

\* The write of txs enqueued last among those to the cell of txs[i].
LastFor(txs, i) ==
  txs[CHOOSE j \in i..Len(txs) :
        /\ SameCell(txs[j], txs[i])
        /\ \A k \in (j + 1)..Len(txs) : ~SameCell(txs[k], txs[i])]

\* The step in which the write attempt of task t succeeds.
WriteSucceeds(t) ==
  /\ tasks[t].pc = "call"
  /\ tasks[t].phase = "write"
  /\ tasks'[t].pc = "idle"
  /\ last' = Ended(tasks[t], "ok")

\* The failure entries of the log that list w.
Reported(w) ==
  \E e \in log : /\ e.msg \in {"Batch update failed", "Failed to execute final batch update"}
                 /\ w \in Range(e.txs)

\* C1: when a flush of a batch succeeds, every cell that writes of the batch
\* resolve to holds the value of the write enqueued last among them, as
\* batchUpdate stores it.
C1_LastWriteWins ==
  [][\A t \in Slots :
       WriteSucceeds(t) =>
         LET txs == tasks[t].txs
             data == tasks[t].data[1]
         IN \A i \in 1..Len(txs) :
              Resolves(data, txs[i]) =>
                sheet'[data.keyToRowIndex[txs[i].key] - 1][txs[i].column]
                  = CoerceValue(LastFor(txs, i).value)]_vars

\* A batch of two writes with different values to the status cell of k1 was
\* flushed, and the cell holds the second.
C1_Witness ==
  /\ last.kind \in {"batch", "final"}
  /\ last.result = "ok"
  /\ last.phase = "write"
  /\ Len(last.txs) = 2
  /\ last.txs[1].key = K1 /\ last.txs[2].key = K1
  /\ last.txs[1].value # last.txs[2].value
  /\ sheet[1]["status"] = CoerceValue(last.txs[2].value)

\* C2: when the process has stopped after a termination signal, no write is
\* left in the queue or in a batch still in flight without being listed in a
\* failure report.
C2_NoWriteLost ==
  (lifecycle = "Stopped" /\ exitCode = 0) =>
    /\ \A w \in Range(updateQueue) : Reported(w)
    /\ \A t \in Slots :
         (InFlight(t) /\ tasks[t].kind \in {"batch", "final"}) =>
           \A w \in Range(tasks[t].txs) : Reported(w)

\* C3: the first termination signal that finds N >= 1 writes pending starts
\* one final flush of all N, no other final flush is ever started, and the
\* stop is reported only once that flush has ended.
C3_OneFinalFlush ==
  /\ [](/\ finalFlushes <= 1
        /\ StoppedEntry \in log =>
             /\ tasks[0].pc = "idle"
             /\ finalFlushes = 1 =>
                  last.kind = "final" /\ last.result \in {"ok", "exhausted"})
  /\ [][(~isShuttingDown /\ isShuttingDown' /\ updateQueue # <<>>) =>
          /\ tasks'[0].kind = "final"
          /\ tasks'[0].pc = "call"
          /\ tasks'[0].txs = updateQueue
          /\ updateQueue' = <<>>
          /\ finalFlushes' = 1]_vars

\* The stop was reported after a final flush of two pending writes.
C3_Witness ==
  /\ StoppedEntry \in log
  /\ finalFlushes = 1
  /\ last.kind = "final"
  /\ Len(last.txs) = 2

\* C4: the process does not stop on a termination signal while a remote call
\* is in flight.
C4_NoStopDuringCall ==
  (lifecycle = "Stopped" /\ exitCode = 0) => \A t \in Slots : tasks[t].pc # "call"

\* C5: at most one scheduled batch flush is in flight at a time.
C5_OneBatchInFlight ==
  Cardinality({t \in Pool : tasks[t].kind = "batch" /\ InFlight(t)}) <= 1

\* C6: a remote operation is attempted at most maxRetries times, it ends in
\* success at one of these attempts or in exhaustion after exactly
\* maxRetries of them, and an error of a remote operation is logged only at
\* exhaustion (the sheet that initialize does not find is no remote
\* operation of the retry executor).
C6_RetryBound ==
  /\ [](/\ \A t \in Slots : tasks[t].pc = "call" => tasks[t].attempt \in 1..maxRetries
        /\ last.result = "exhausted" => last.attempt = maxRetries
        /\ last.result = "ok" => last.attempt \in 1..maxRetries)
  /\ [][(log' # log /\ log' # log \cup {SheetNotFound}) =>
         last'.result = "exhausted" /\ last'.attempt = maxRetries]_vars

\* A call succeeded at its third attempt, after two failures nobody saw.
C6_Witness ==
  /\ last.result = "ok"
  /\ last.attempt = maxRetries
  /\ log = {}

\* C7 as the specification states it: a throttled load issues no remote
\* read, and a load that is not throttled issues exactly one.
C7_CachedWithoutRead ==
  /\ \A t \in Slots :
       tasks[t].kind = "query" =>
         tasks[t].reads = (IF tasks[t].throttled THEN 0 ELSE 1)
  /\ last.kind = "query" => last.reads = (IF last.throttled THEN 0 ELSE 1)

\* C7 as the code has it: a throttled load waits until readInterval has
\* passed since the read it found, and then issues its one remote read; a
\* load that is not throttled issues its one remote read at once.
C7_WaitThenRead ==
  /\ \A t \in Slots :
       tasks[t].kind = "query" =>
         /\ tasks[t].pc = "wait" =>
              /\ tasks[t].throttled
              /\ tasks[t].reads = 0
              /\ tasks[t].elapsed + tasks[t].timer = ReadInterval
         /\ tasks[t].pc = "call" =>
              /\ tasks[t].reads = 1
              /\ tasks[t].throttled => tasks[t].elapsed = ReadInterval
              /\ ~tasks[t].throttled => tasks[t].elapsed = 0
  /\ last.kind = "query" => last.reads = 1

\* A throttled load ended with the result of the one read it issued.
C7_Witness ==
  /\ last.kind = "query"
  /\ last.throttled
  /\ last.result = "ok"
  /\ last.reads = 1

\* C8: a non-forced load starts its remote read only when readInterval has
\* passed since the last start of such a read and since the last completed
\* read.
C8_ReadsApart ==
  [][\A t \in Pool :
       (tasks'[t].kind = "query" /\ tasks'[t].pc = "call" /\ tasks[t].pc # "call") =>
         /\ sinceStart = ReadInterval
         /\ cachedData # <<>> => sinceRead >= ReadInterval]_vars

\* C9: a batch flush that ended in exhaustion has a failure entry that lists
\* the whole batch.
C9_FailureListsBatch ==
  (last.result = "exhausted" /\ last.kind \in {"batch", "final"}) =>
    Entry("Batch update failed", last.txs) \in log

\* A final flush of two writes ended in exhaustion and both are listed.
C9_Witness ==
  /\ last.result = "exhausted"
  /\ last.kind = "final"
  /\ Len(last.txs) = 2
  /\ \A w \in Range(last.txs) : Reported(w)

\* C10: once the shutdown handler has taken a termination signal, the
\* process stops.
C10_EventuallyStopped == isShuttingDown ~> lifecycle = "Stopped"

\* The process stopped after every attempt of the final flush failed.
C10_Witness ==
  /\ isShuttingDown
  /\ lifecycle = "Stopped"
  /\ exitCode = 0
  /\ last.kind = "final"
  /\ last.result = "exhausted"

\* C11: when a flush succeeds, every row it changed carries, at the moment
\* of the write, the key of one of the flush's writes.
C11_WritesOwnRow ==
  [][\A t \in Slots :
       WriteSucceeds(t) =>
         \A r \in 1..Len(sheet') :
           (r > Len(sheet) \/ sheet'[r] # sheet[r]) =>
             /\ r <= Len(sheet)
             /\ \E i \in 1..Len(tasks[t].txs) : tasks[t].txs[i].key = CellText(sheet[r]["id"])]_vars

\* C12: a write of a flush whose key or column the loaded data lacks changes
\* no cell and causes no error: when the flush succeeds, exactly the cells
\* the other writes resolve to are written, each with its last write's
\* value, the sheet keeps its size, nothing is logged, the queue is as it
\* was and the call has ended without another attempt.
C12_DropsUnresolved ==
  [][\A t \in Slots :
       WriteSucceeds(t) =>
         LET txs == tasks[t].txs
             data == tasks[t].data[1]
             Hits(i, r, h) == /\ Resolves(data, txs[i])
                              /\ data.keyToRowIndex[txs[i].key] - 1 = r
                              /\ txs[i].column = h
         IN /\ Len(sheet') = Len(sheet)
            /\ \A r \in 1..Len(sheet) : \A h \in HeaderSet :
                 IF \E i \in 1..Len(txs) : Hits(i, r, h)
                 THEN \A i \in 1..Len(txs) :
                        Hits(i, r, h) => sheet'[r][h] = CoerceValue(LastFor(txs, i).value)
                 ELSE sheet'[r][h] = sheet[r][h]
            /\ log' = log
            /\ updateQueue' = updateQueue
            /\ tasks'[t] = IdleTask]_vars

\* A batch whose first write names a key the sheet lacks and whose second
\* write names k1 has been flushed: the cell of k1 holds the second write's
\* value and nothing was logged.
C12_Witness ==
  /\ last.kind = "batch"
  /\ last.result = "ok"
  /\ last.phase = "write"
  /\ Len(last.txs) = 2
  /\ last.txs[1].key = KX
  /\ last.txs[2].key = K1
  /\ sheet[1]["status"] = CoerceValue(last.txs[2].value)
  /\ sheet[2] = InitialSheet[2]
  /\ log = {}

\* The step in which task t takes the queue into a batch flush.
TakesQueue(t) ==
  /\ tasks[t].pc = "idle"
  /\ tasks'[t].kind \in {"batch", "final"}
  /\ tasks'[t].pc = "call"

\* The swap of the queue into a batch: no write is at once in the queue and
\* in a batch in flight or in two batches in flight; an enqueue appends to
\* the queue and touches no batch; a batch in flight keeps its writes; the
\* queue loses writes only when a batch flush takes the whole of it and
\* leaves it empty.
AtMostOneBatchPerWrite ==
  /\ [](\A t \in Slots :
          /\ InFlight(t) => Range(tasks[t].txs) \cap Range(updateQueue) = {}
          /\ \A u \in Slots :
               (u # t /\ InFlight(t) /\ InFlight(u)) =>
                 Range(tasks[t].txs) \cap Range(tasks[u].txs) = {})
  /\ [][/\ Len(updateQueue') > Len(updateQueue) =>
             /\ Len(updateQueue') = Len(updateQueue) + 1
             /\ SubSeq(updateQueue', 1, Len(updateQueue)) = updateQueue
             /\ \A t \in Slots : updateQueue'[Len(updateQueue')] \notin Range(tasks[t].txs)
             /\ tasks' = tasks
        /\ \A t \in Slots :
             (InFlight(t) /\ InFlight(t)') => tasks'[t].txs = tasks[t].txs
        /\ \A t \in Slots :
             TakesQueue(t) =>
               /\ updateQueue # <<>>
               /\ tasks'[t].txs = updateQueue
               /\ updateQueue' = <<>>
        /\ (updateQueue' # updateQueue /\ Len(updateQueue') <= Len(updateQueue)) =>
             \E t \in Slots : TakesQueue(t)]_vars

\* A scheduled batch is in flight and the queue holds a write enqueued after
\* the batch was taken.
EnqueuedDuringFlush ==
  \E t \in Pool :
    /\ tasks[t].kind = "batch"
    /\ InFlight(t)
    /\ updateQueue # <<>>
    /\ \A i \in 1..Len(tasks[t].txs) : tasks[t].txs[i].id < updateQueue[1].id

\* C13: a write enqueued while a batch flush is in flight stays queued for a
\* later batch and, while no termination signal arrives, is taken into
\* exactly one batch: as long as writes are queued and no signal has
\* arrived, the process is alive to take them.
C13_QueuedWriteTaken ==
  (updateQueue # <<>> /\ ~isShuttingDown) => Alive

Enqueues ==
  /\ Len(updateQueue') = Len(updateQueue) + 1
  /\ SubSeq(updateQueue', 1, Len(updateQueue)) = updateQueue

\* C14: at most one batch timer is armed, and the handle is set exactly
\* while it is; an enqueue arms a timer of BatchInterval only when the handle
\* is not set and the server is not shutting down, and then it is the first
\* enqueue of its batch; any other enqueue leaves the timer as it is; an
\* armed timer only counts down, and the scheduled batch is taken when it
\* has reached zero.
C14_OneTimer ==
  /\ [](/\ Len(timers) <= 1
        /\ batchTimer = "armed" <=> Len(timers) = 1
        /\ \A i \in 1..Len(timers) : timers[i] \in 0..BatchInterval)
  /\ [][/\ Enqueues =>
             IF batchTimer = "null" /\ ~isShuttingDown
             THEN /\ updateQueue = <<>>
                  /\ timers' = <<BatchInterval>>
                  /\ batchTimer' = "armed"
             ELSE /\ timers' = timers
                  /\ batchTimer' = batchTimer
        /\ (Len(timers) = 1 /\ Len(timers') = 1) =>
             timers'[1] \in {timers[1], timers[1] - 1}
        /\ \A t \in Slots :
             (TakesQueue(t) /\ tasks'[t].kind = "batch") =>
               /\ timers = <<0>>
               /\ timers' = <<>>]_vars

\* Two writes are queued and the timer the first one armed is due: the
\* second enqueue has neither added a timer nor restarted the count-down.
C14_Witness ==
  /\ Len(updateQueue) = 2
  /\ timers = <<0>>
  /\ batchTimer = "armed"
  /\ ~isShuttingDown

\* C16: once a termination signal has been handled no batch timer is live:
\* the pending one is gone with the signal, none is armed afterwards, no
\* scheduled batch is taken, and an enqueue only appends to the queue.
C16_NoTimerAfterSignal ==
  /\ [](isShuttingDown => (timers = <<>> /\ batchTimer # "armed"))
  /\ [][isShuttingDown =>
          /\ timers' = <<>>
          /\ batchTimer' = batchTimer
          /\ \A t \in Slots : ~(TakesQueue(t) /\ tasks'[t].kind = "batch")
          /\ updateQueue' # updateQueue => (Enqueues /\ tasks' = tasks)]_vars

\* After the signal, while the final flush is in flight, a write was
\* enqueued: it sits in the queue and no timer is armed.
C16_Witness ==
  /\ isShuttingDown
  /\ lifecycle = "Draining"
  /\ updateQueue # <<>>
  /\ timers = <<>>
  /\ batchTimer = "null"

\* C17: an immediate flush carries exactly its one write, never waits
\* before its remote calls, and every step of it, from the call to the
\* successful write, leaves the queue, the handle and the live timers as
\* they are.
C17_FlushBypassesQueue ==
  /\ [](\A t \in Slots :
          tasks[t].kind = "flush" => (tasks[t].pc = "call" /\ Len(tasks[t].txs) = 1))
  /\ [][\A t \in Slots :
          (tasks'[t] # tasks[t] /\ "flush" \in {tasks[t].kind, tasks'[t].kind}) =>
            /\ updateQueue' = updateQueue
            /\ batchTimer' = batchTimer
            /\ timers' = timers
            /\ tasks[t].kind # "flush" => tasks'[t].txs[1] \notin Range(updateQueue)]_vars

\* An immediate flush to the status cell of k1 has succeeded and the cell
\* holds its value, while a deferred write is still queued behind a timer
\* that has its whole interval left.
C17_Witness ==
  /\ last.kind = "flush"
  /\ last.result = "ok"
  /\ last.phase = "write"
  /\ last.txs[1].column = "status"
  /\ sheet[1]["status"] = CoerceValue(last.txs[1].value)
  /\ updateQueue # <<>>
  /\ updateQueue[1].id < last.txs[1].id
  /\ timers = <<BatchInterval>>
  /\ batchTimer = "armed"

\* The writes of task t to the status cell of k1, by position.
ToStatusOfK1(t) ==
  {i \in 1..Len(tasks[t].txs) :
     tasks[t].txs[i].key = K1 /\ tasks[t].txs[i].column = "status"}

\* C18: whichever way flushes with writes to the status cell of k1
\* interleave, the cell changes only when one of them succeeds, it then
\* holds the value of one of that flush's writes to it, as batchUpdate
\* stores it, and a flush still in flight is left as it is; so after two
\* concurrent flushes with values a and b have both succeeded the cell
\* holds a or b.
C18_OneOfTheTwo ==
  [][/\ \A t \in Slots :
          (WriteSucceeds(t) /\ ToStatusOfK1(t) # {}) =>
            /\ \E i \in ToStatusOfK1(t) :
                 sheet'[1]["status"] = CoerceValue(tasks[t].txs[i].value)
            /\ \A u \in Slots \ {t} : tasks'[u] = tasks[u]
     /\ sheet'[1]["status"] # sheet[1]["status"] =>
          \E t \in Slots : WriteSucceeds(t) /\ ToStatusOfK1(t) # {}]_vars

\* Of two flushes that overlap, with different values for the status cell
\* of k1, the one called later has succeeded, the cell holds its value, and
\* the one called first is still in its write call.
C18_Witness ==
  /\ last.kind = "flush"
  /\ last.result = "ok"
  /\ last.phase = "write"
  /\ last.txs[1].key = K1 /\ last.txs[1].column = "status"
  /\ sheet[1]["status"] = CoerceValue(last.txs[1].value)
  /\ \E u \in Slots :
       /\ tasks[u].pc = "call" /\ tasks[u].phase = "write"
       /\ \E i \in ToStatusOfK1(u) :
            /\ tasks[u].txs[i].value # last.txs[1].value
            /\ tasks[u].txs[i].id < last.txs[1].id

\* The step in which the remote read of task t's loadData succeeds.
LoadReturns(t) ==
  /\ tasks[t].pc = "call"
  /\ tasks[t].phase = "read"
  /\ \/ tasks'[t].phase = "write"
     \/ tasks'[t].pc = "idle" /\ last' = Ended(tasks[t], "ok")

\* The index from the values of column key to the 1-based sheet rows that
\* hold them (the header is row 1; the last row wins a repeated value).
KeyIndexBy(data, key) ==
  LET held == {data.rows[i][key] : i \in 1..Len(data.rows)} \ {<<>>}
      LastRowOf(k) == CHOOSE i \in 1..Len(data.rows) :
                        /\ data.rows[i][key] = k
                        /\ \A j \in 1..Len(data.rows) : data.rows[j][key] = k => j <= i
  IN [k \in held |-> LastRowOf(k) + 1]

\* C19: the data a load stores has a key index built from the key column in
\* force when the load returns: from the first column only if that is the
\* key column.
C19_IndexByKeyColumn ==
  [][\A t \in Slots :
       LoadReturns(t) =>
         LET data == cachedData'[1]
         IN data.keyToRowIndex = KeyIndexBy(data, GetKeyColumnName(keyColumn', data.headers))]_vars

\* C20: the key column a query or appendValue call works with is the one
\* the resolution rules (header name, else column letter, else first header)
\* give for the key specification in force, the one of the last configure
\* call included.
C20_ConfiguredKeyResolved ==
  [][(calls'.query # calls.query \/ calls'.append # calls.append) =>
       GetKeyColumnName(keyColumn, SheetHeaders) = ResolveKeyColumn(keyColumn, SheetHeaders)]_vars

\* The position of a letter in the alphabet, from 0, whatever its case.
LetterOrdinal(c) == CHOOSE n \in 0..25 : Letters[n + 1] = UpperChar(c)

OnlyLetters(cs) ==
  cs # <<>> /\ \A i \in 1..Len(cs) : \E n \in 0..25 : Letters[n + 1] = UpperChar(cs[i])

\* The index of a column written in letters: A is 0, Z is 25, AA is 26.
RECURSIVE Base26(_)
Base26(cs) ==
  IF Len(cs) = 1 THEN LetterOrdinal(cs[1])
  ELSE 26 * (Base26(SubSeq(cs, 1, Len(cs) - 1)) + 1) + LetterOrdinal(cs[Len(cs)])

\* C21: resolveKeyColumn leaves a specification that is a header name as
\* it is; else, for a specification of letters only whose column index is
\* below the number of headers, it gives the header at that index; else the
\* first header.
C21_ResolveRules ==
  (probe.op = "resolve" /\ probe.done) =>
    LET spec == probe.args.key
        headers == probe.args.headers
        cs == Chars(spec)
    IN probe.result =
         IF \E i \in 1..Len(headers) : headers[i] = spec THEN spec
         ELSE IF OnlyLetters(cs) /\ Base26(cs) < Len(headers) THEN headers[Base26(cs) + 1]
         ELSE headers[1]

\* The specification AA was resolved against 27 headers: the key column is
\* the last of them.
C21_Witness ==
  /\ probe.op = "resolve"
  /\ probe.done
  /\ probe.args.key = "AA"
  /\ probe.args.headers = WideHeaders
  /\ probe.result = WideHeaders[27]

\* The conditions of a query whose column is one of the headers.
KnownConditions(conditions, headers) ==
  LET Known(c) == \E i \in 1..Len(headers) : headers[i] = c[1]
  IN SelectSeq(conditions, Known)

\* C22: a query condition on a column that is not among the headers of the
\* data is ignored: with == or != and any value, the query returns the keys
\* it returns without that condition.
C22_UnknownColumnIgnored ==
  (probe.op = "query" /\ probe.done) =>
    probe.result.keys =
      HandleQuery(probe.args.data, probe.args.key,
                  KnownConditions(probe.args.conditions, probe.args.data.headers),
                  probe.args.limit).keys

\* The rows of data that satisfy every condition, in the order of the rows.
Satisfying(data, conditions) ==
  LET All(row) == \A i \in 1..Len(conditions) : Matches(row, conditions[i])
  IN SelectSeq(data.rows, All)

\* The first n elements of seq, all of them when it is shorter.
FirstN(seq, n) == [i \in 1..(IF n < Len(seq) THEN n ELSE Len(seq)) |-> seq[i]]

\* C23: query returns the key-column values of exactly the rows that satisfy
\* every condition, in row order (all rows for an empty condition list); with
\* limit = N, for every N >= 0, it returns those of the first N such rows,
\* so at most N keys.
C23_QueryKeys ==
  (probe.op = "query" /\ probe.done /\ (probe.args.limit = <<>> \/ probe.args.limit[1] >= 0)) =>
    LET rows == Satisfying(probe.args.data, probe.args.conditions)
        expected == IF probe.args.limit = <<>> THEN rows ELSE FirstN(rows, probe.args.limit[1])
    IN /\ ~probe.result.thrown
       /\ probe.result.keys = [i \in 1..Len(expected) |-> expected[i][probe.args.key]]
       /\ probe.args.limit # <<>> => Len(probe.result.keys) <= probe.args.limit[1]

\* The value data holds in column for key k, by the column named keyName:
\* empty when no row has the key or the rows have no such column.
HeldValue(data, keyName, k, column) ==
  LET holders == {i \in 1..Len(data.rows) : data.rows[i][keyName] = k}
      first == CHOOSE i \in holders : \A j \in holders : i <= j
  IN IF holders = {} \/ column \notin DOMAIN data.rows[first] THEN <<>>
     ELSE data.rows[first][column]

\* C24: appendValue enqueues one write for the key and column, whose value is
\* exactly the given value when the cell's current value is empty, and else
\* the current value, the separator (a newline unless one is given) and the
\* given value, in this order.
C24_AppendedValue ==
  (probe.op = "append" /\ probe.done /\ probe.args.cached # <<>>) =>
    LET current == HeldValue(probe.args.cached[1], probe.args.key, probe.args.k,
                             probe.args.column)
        sep == IF probe.args.separator = <<>> THEN <<"\n">> ELSE probe.args.separator[1]
    IN /\ ~probe.result.thrown
       /\ Len(probe.result.pushed) = 1
       /\ probe.result.pushed[1].key = probe.args.k
       /\ probe.result.pushed[1].column = probe.args.column
       /\ probe.result.pushed[1].value =
            IF current = <<>> THEN probe.args.value
            ELSE current \o sep \o probe.args.value

\* An append to a cell holding "a", with the default separator.
C24_Witness ==
  /\ probe.op = "append" /\ probe.done
  /\ probe.args.cached = <<LoadRows(ProbeSheet)>>
  /\ probe.args.k = K1 /\ probe.args.column = "status"
  /\ probe.args.separator = <<>> /\ probe.args.value = <<"b">>
  /\ probe.result.pushed[1].value = <<"a", "\n", "b">>

\* C27: get(key) returns the row whose key-column value equals the key (the
\* first one in row order) when the data has such a row, and otherwise the
\* result {error: "Key not found"}, returned and not raised.
C27_GetRowOrNotFound ==
  (probe.op = "get" /\ probe.done) =>
    LET rows == probe.args.data.rows
        holders == {i \in 1..Len(rows) : rows[i][probe.args.key] = probe.args.k}
    IN IF holders = {}
       THEN probe.result = [thrown |-> FALSE, error |-> "Key not found"]
       ELSE /\ probe.result = [thrown |-> FALSE,
                               row |-> rows[CHOOSE i \in holders : \A j \in holders : i <= j]]
            /\ probe.result.row[probe.args.key] = probe.args.k

\* A get of a key no row holds has returned the not-found result.
C27_Witness ==
  /\ probe.op = "get" /\ probe.done /\ probe.args.k = KX /\ probe.args.key = "id"
  /\ probe.result = [thrown |-> FALSE, error |-> "Key not found"]

\* C28: configure with a header row number smaller than 1 fails (the invalid
\* parameters error is raised) and leaves the configured header row as it
\* was; with a header row number of 1 or more it succeeds and stores it.
C28_HeaderRowChecked ==
  (probe.op = "configure" /\ probe.done /\ probe.args.headerRow # <<>>) =>
    IF probe.args.headerRow[1] < 1
    THEN /\ probe.result.thrown
         /\ probe.result.config.headerRow = probe.args.config.headerRow
    ELSE /\ ~probe.result.thrown
         /\ probe.result.config.headerRow = probe.args.headerRow[1]

\* A configure with header row 0 has failed, on a configuration whose header
\* row was 2.
C28_Witness ==
  /\ probe.op = "configure" /\ probe.done /\ probe.args.headerRow = <<0>>
  /\ probe.args.config.headerRow = 2
  /\ probe.result.thrown /\ probe.result.config.headerRow = 2

\* s without the spaces around it.
Stripped(s) ==
  LET inside == {i \in 1..Len(s) : s[i] # " "}
  IN IF inside = {} THEN <<>>
     ELSE SubSeq(s, CHOOSE i \in inside : \A j \in inside : i <= j,
                    CHOOSE i \in inside : \A j \in inside : i >= j)

\* s parses as a number: decimal digits, possibly with spaces around them
\* (Number ignores surrounding white space); the empty string does not.
ParsesAsNumber(s) ==
  /\ Stripped(s) # <<>>
  /\ \A i \in 1..Len(Stripped(s)) : Stripped(s)[i] \in {Digits[d] : d \in 1..10}

\* The number a run of digits denotes.
RECURSIVE Decimal(_)
Decimal(s) ==
  IF s = <<>> THEN 0 ELSE 10 * Decimal(SubSeq(s, 1, Len(s) - 1))
                          + (CHOOSE d \in 0..9 : Digits[d + 1] = s[Len(s)])

\* s equals word (given in lower case) when the case of letters is ignored.
EqualsIgnoringCase(s, word) ==
  /\ Len(s) = Len(word)
  /\ \A i \in 1..Len(s) : s[i] = word[i] \/ s[i] = UpperChar(word[i])

\* C26 as stated: the value is written as a number if it parses as a number,
\* as a boolean if it equals true or false ignoring case, and otherwise as
\* the unchanged string (the empty string as the empty string, not 0); the
\* write's own value string is not modified.
C26_EqualsTrueOrFalse ==
  (probe.op = "coerce" /\ probe.done) =>
    LET value == probe.args.value IN
    /\ probe.result.cell =
         IF ParsesAsNumber(value) THEN NumCell(Decimal(Stripped(value)))
         ELSE IF EqualsIgnoringCase(value, <<"t", "r", "u", "e">>) THEN BoolCell(TRUE)
         ELSE IF EqualsIgnoringCase(value, <<"f", "a", "l", "s", "e">>) THEN BoolCell(FALSE)
         ELSE StrCell(value)
    /\ probe.result.value = value

\* C26, amended: the value is written as a number if, without the spaces
\* around it, it parses as a number, as a boolean if, without the spaces
\* around it, it equals true or false ignoring case, and otherwise as the
\* unchanged string, spaces included (the empty string and a string of
\* spaces are written as they are, not as 0); the write's own value string
\* is not modified.
C26_TrimmedThenCompared ==
  (probe.op = "coerce" /\ probe.done) =>
    LET value == probe.args.value IN
    /\ probe.result.cell =
         IF ParsesAsNumber(value) THEN NumCell(Decimal(Stripped(value)))
         ELSE IF EqualsIgnoringCase(Stripped(value), <<"t", "r", "u", "e">>) THEN BoolCell(TRUE)
         ELSE IF EqualsIgnoringCase(Stripped(value), <<"f", "a", "l", "s", "e">>)
              THEN BoolCell(FALSE)
         ELSE StrCell(value)
    /\ probe.result.value = value

\* The value " true" has been written as the boolean.
C26_Witness ==
  /\ probe.op = "coerce" /\ probe.done
  /\ probe.args.value = <<" ", "t", "r", "u", "e">>
  /\ probe.result.cell = BoolCell(TRUE)
  /\ probe.result.value = <<" ", "t", "r", "u", "e">>

\* C29: when initialize fails because the sheet is not in the document, the
\* start is given up: the process has exited with code 1 without having
\* been Running, no call has been served, no remote read or write was
\* started, and there is neither cached data nor a queued write.
C29_NotFoundAborts ==
  SheetNotFound \in log =>
    /\ lifecycle = "Stopped"
    /\ exitCode = 1
    /\ CallsMade = 0
    /\ \A t \in Slots : IsFree(t)
    /\ cachedData = <<>>
    /\ updateQueue = <<>>
    /\ sheet = InitialSheet

\* The start has failed for a sheet that was not found.
C29_Witness == SheetNotFound \in log /\ lifecycle = "Stopped" /\ exitCode = 1

\* C30: the cached data changes only in the step in which a remote read
\* succeeds, and then becomes, as a whole, the data of that read; no call
\* (query, appendValue, update, flush), batch or timer changes it otherwise.
C30_ReplacedByReads ==
  [][cachedData' # cachedData =>
       /\ \E t \in Slots : LoadReturns(t)
       /\ cachedData' = <<LoadRows(sheet)>>]_vars

\* The cached data has been replaced by a later read: it holds a value that
\* a call wrote to the sheet.
C30_Witness ==
  /\ cachedData # <<>>
  /\ cachedData[1] # LoadRows(InitialSheet)
  /\ cachedData[1] = LoadRows(sheet)
  /\ calls.flush + calls.update + calls.append >= 1

\* C25: whenever a call uses the cached data (appendValue reads it as it is,
\* query takes what its load returns), the data was fetched at most the read
\* interval earlier.
C25_CacheFreshWhenUsed ==
  [][(calls'.append # calls.append /\ cachedData # <<>>) => sinceRead <= ReadInterval]_vars

\* C40: of several termination signals only the first starts a drain: a
\* signal that arrives when the handler has already been entered starts no
\* flush, touches neither the queue nor the running calls, and leaves the
\* process running as it was.
C40_LaterSignalsIgnored ==
  [][(signalled' # signalled /\ isShuttingDown) =>
       /\ finalFlushes' = finalFlushes
       /\ tasks' = tasks
       /\ updateQueue' = updateQueue
       /\ timers' = timers
       /\ lifecycle' = lifecycle
       /\ exitCode' = exitCode
       /\ log' = log]_vars

\* The second signal has arrived during the drain, which goes on.
C40_Witness ==
  /\ Len(signalled) = 2
  /\ lifecycle = "Draining"
  /\ finalFlushes = 1
  /\ tasks[0].kind = "final"
  /\ tasks[0].pc = "call"

\* C38: a configure call that fails for its header row leaves the whole
\* configuration as it was, the key column given in the same call included.
C38_FailedConfigureChangesNothing ==
  (probe.op = "configure" /\ probe.done /\ probe.result.thrown) =>
    probe.result.config = probe.args.config

\* A cell that holds nothing.
IsEmptyCell(cell) == cell.t = "str" /\ cell.s = <<>>

\* The text of a cell's value: a string as it is, a number in decimal.
TextOf(cell) ==
  CASE cell.t = "str" -> cell.s
    [] cell.t = "num" -> NumberToString(cell.n)
    [] cell.t = "bool" -> IF cell.b THEN <<"t", "r", "u", "e">> ELSE <<"f", "a", "l", "s", "e">>

\* C31: with a header row h other than 1, the headers are the cells of row h
\* before its first empty cell, the rows are the rows below row h before the
\* first row whose cells in all header columns are empty, and row i of them
\* (from 0) is indexed at sheet row h + 1 + i (stated for keys that one row
\* holds).
C31_ScanToFirstEmpty ==
  (probe.op = "load" /\ probe.done) =>
    LET grid == probe.args.grid
        h == probe.args.headerRow
        data == probe.result
        n == LeadingCount([c \in 1..Len(grid[h]) |-> ~IsEmptyCell(grid[h][c])])
        below == [i \in 1..(Len(grid) - h) |-> grid[h + i]]
        Filled(cells) == \E c \in 1..n : ~IsEmptyCell(cells[c])
        m == LeadingCount([i \in 1..Len(below) |-> Filled(below[i])])
    IN /\ Len(data.headers) = n
       /\ \A c \in 1..n : Chars(data.headers[c]) = TextOf(grid[h][c])
       /\ Len(data.rows) = m
       /\ \A i \in 0..(m - 1) :
            LET key == TextOf(below[i + 1][1])
            IN (key # <<>> /\ \A j \in 0..(m - 1) : TextOf(below[j + 1][1]) = key => j = i) =>
                 /\ key \in DOMAIN data.keyToRowIndex
                 /\ data.keyToRowIndex[key] = h + 1 + i

\* C35: after flush(key, column, v) on an existing key and column, with no
\* other writer, the following get(key) returns v for that column, for every
\* value v and every header row, the converted values included (stated on
\* the sheets where one row holds the key).
C35_WriteThenGetReturnsValue ==
  (probe.op = "written" /\ probe.done /\ ~probe.args.twice) =>
    /\ "row" \in DOMAIN probe.result.reply
    /\ probe.result.reply.row["status"] = probe.args.value

\* The rows of the store that a flush has changed.
ChangedRows(before, after) == {i \in 1..Len(before) : before[i] # after[i]}

\* C34: the row get(key) returns is the row a flush to that key modifies,
\* also on a sheet where several rows carry the key: whenever the flush has
\* changed a row, the get that follows returns that row as it is read.
C34_GetReturnsWrittenRow ==
  (probe.op = "written" /\ probe.done) =>
    LET h == probe.args.headerRow
        rows == LoadWritten(probe.result.store, h).rows
    IN \A i \in ChangedRows(WrittenStore(probe.args), probe.result.store) :
         /\ "row" \in DOMAIN probe.result.reply
         /\ probe.result.reply.row = rows[IF h = 1 THEN i ELSE i - h]

\* Both appendValue calls of the run have been made and nothing else writes.
AppendedTwice == calls.append = MaxCalls /\ calls.update = 0 /\ calls.flush = 0

\* Nothing is queued and no call is in flight.
AllFlushed == updateQueue = <<>> /\ \A t \in Slots : tasks[t].pc = "idle"

\* C33: two appendValue calls for the same key and column, with v1 and then
\* v2 and no other writer: once every flush is done and none has failed, the
\* cell holds v1, the separator and v2, whether or not a batch ran between
\* the two calls.
C33_BothAppendsKept ==
  (AppendedTwice /\ AllFlushed /\ log = {} /\ cachedData # <<>>
     /\ \E i \in 1..Len(sheet) : sheet[i].status # InitialSheet[i].status) =>
    \A inp \in AppendInputs :
      CellText(sheet[1].status) = inp[3] \o Separator \o inp[3]

\* The call in slot t is a flush (scheduled, immediate or final) whose forced
\* read is at its last attempt.
ReadAtLastAttempt(t) ==
  /\ tasks[t].pc = "call"
  /\ tasks[t].phase = "read"
  /\ tasks[t].kind \in {"batch", "flush", "final"}
  /\ tasks[t].attempt = maxRetries

\* C36: when the forced re-read of a flush, scheduled or immediate, fails at
\* its last attempt, the flush ends there: it never reaches the write phase,
\* the sheet is unchanged, and the caller gets the exhaustion of the read,
\* which is logged.
C36_ReadExhaustedWritesNothing ==
  [][\A t \in Slots :
       (ReadAtLastAttempt(t) /\ AttemptFail(t)) =>
         /\ tasks'[t] = IdleTask
         /\ sheet' = sheet
         /\ last' = Ended(tasks[t], "exhausted")
         /\ last'.result = "exhausted" /\ last'.phase = "read"
         /\ log' # log \/ \E e \in log : e.msg \in {"Batch update failed", "Tool execution error"}
         /\ \A u \in Slots : tasks'[u].phase = "write" => tasks[u].phase = "write"]_vars

C36_Witness ==
  /\ last.result = "exhausted"
  /\ last.phase = "read"
  /\ last.kind \in {"batch", "flush"}
  /\ last.txs # <<>>
  /\ sheet = InitialSheet

\* The call in slot t is in the read of loadData.
Reading(t) == tasks[t].pc = "call" /\ tasks[t].phase = "read"

\* C37: a read that ends in the exhaustion of its retries leaves the cached
\* data and the time of the last read as they were: no failing attempt of a
\* read touches either, and they change only in a step in which an attempt of
\* a read succeeds.
C37_FailedReadKeepsCache ==
  [][/\ \A t \in Slots :
          (Reading(t) /\ AttemptFail(t)) =>
            cachedData' = cachedData /\ sinceRead' = sinceRead
     /\ (cachedData' # cachedData \/ sinceRead' < sinceRead) =>
          \E t \in Slots : Reading(t) /\ AttemptOk(t)]_vars

C37_Witness ==
  /\ last.result = "exhausted"
  /\ last.phase = "read"
  /\ last.kind = "query"
  /\ cachedData = <<LoadRows(InitialSheet)>>

\* The cell of row r, column h is one that a write of the batch txs, resolved
\* against data, addresses in the sheet sh.
Addressed(sh, data, txs, r, h) ==
  \E i \in 1..Len(txs) :
    /\ Resolves(data, txs[i])
    /\ txs[i].column = h
    /\ txs[i].key = CellText(sh[r]["id"])

\* C39: a flush that succeeds changes only cells that the resolvable writes
\* of its own batch address (the column of a write, in the row that holds the
\* write's key); every other cell of the sheet keeps its value and no row is
\* added.
C39_OnlyAddressedCellsChange ==
  [][\A t \in Slots :
       WriteSucceeds(t) =>
         /\ Len(sheet') = Len(sheet)
         /\ \A r \in 1..Len(sheet) : \A h \in HeaderSet :
              sheet'[r][h] # sheet[r][h] =>
                Addressed(sheet, tasks[t].data[1], tasks[t].txs, r, h)]_vars

\* C32: as long as no termination signal has been received, the batch timer
\* is armed exactly when the update queue holds a write: the handle is set
\* and one timer is live if the queue is non-empty, and the handle is null
\* and no timer is live if it is empty.
C32_TimerArmedIffQueued ==
  signalled = <<>> =>
    /\ batchTimer = "armed" <=> updateQueue # <<>>
    /\ timers # <<>> <=> updateQueue # <<>>
    /\ batchTimer \in {"armed", "null"}

\* A write is queued behind a batch in flight, and the timer is armed again.
C32_Witness ==
  /\ signalled = <<>>
  /\ updateQueue # <<>>
  /\ batchTimer = "armed"
  /\ \E t \in Slots : tasks[t].kind = "batch" /\ tasks[t].pc = "call"

====
